---- MODULE Spec2Model ----
(***************************************************************************)
(* Model of src/app.py: the measurement store (create_measurement,         *)
(* list_measurements) and the summary engine (compute_summary,             *)
(* get_insights) of the health-vitals service.                             *)
(*                                                                         *)
(* Representation                                                          *)
(*  - an optional value (Python None / SQL NULL) is a sequence of length   *)
(*    0 or 1: None == <<>>, Some(v) == <<v>>;                              *)
(*  - a metric value is an integer number of tenths (38.0 is 380), so the  *)
(*    thresholds of the code keep their boundary cases; a ratio of two     *)
(*    values (change_pct, slope, avg) is an exact fraction [n, d] in       *)
(*    lowest terms with d > 0 (floating-point rounding is not modelled);   *)
(*  - a measured_at string "YYYY-MM-DDThh:mm<suffix>" is [d, t, z]: d the  *)
(*    day number written in its first ten characters, t the time of day    *)
(*    (0 is 00:30, 1 is 12:00) and z the suffix: "" (none), "+05:00" (a    *)
(*    UTC offset) or "?" (trailing text SQLite cannot parse);              *)
(*  - a calendar date (datetime.date, or its ISO text) is its day number.  *)
(***************************************************************************)
EXTENDS Integers, Sequences, FiniteSets, TLC

VARIABLES store, today, resp, USE_OPENAI, pc, pending, collab

vars == <<store, today, resp, USE_OPENAI, pc, pending, collab>>

(* ------------------------------ bounds --------------------------------- *)
\* most rows the measurements table holds
MaxRecs == 2
\* largest day count N asked of compute_summary
MaxN == 2
\* UTC midnights that pass during a run
MaxTicks == 1
\* day number of the UTC date at start
Today0 == 3

(* --------------------------- optional values --------------------------- *)
None == <<>>

Some(v) == <<v>>

Abs(x) == IF x < 0 THEN -x ELSE x

RECURSIVE Gcd(_, _)
Gcd(a, b) == IF b = 0 THEN a ELSE Gcd(b, a % b)

\* the number n/d (d # 0) in lowest terms with a positive denominator
Frac(n, d) ==
    LET g == Gcd(Abs(n), Abs(d))
        s == IF d < 0 THEN -1 ELSE 1
    IN  [n |-> (s * n) \div g, d |-> (s * d) \div g]

\* Python round(x, 1) of x = n/d in tenths: the nearest tenth, ties to even
Round1(f) ==
    LET q == f.n \div f.d
        r == f.n % f.d
    IN  IF 2 * r < f.d THEN q
        ELSE IF 2 * r > f.d THEN q + 1
        ELSE IF q % 2 = 0 THEN q ELSE q + 1

METRICS == <<"resting_hr", "hrv", "respiratory_rate", "body_temp", "spo2">>

MetricSet == {METRICS[i] : i \in 1..Len(METRICS)}

(* ------------------------------ measured_at ---------------------------- *)
Times == {0, 1}

\* position of a suffix in text order: "" < "+05:00" < "?"
SuffixRank(z) == IF z = "" THEN 0 ELSE IF z = "+05:00" THEN 1 ELSE 2

\* SQLite text comparison measured_at < measured_at (ORDER BY measured_at ASC)
TextLess(a, b) ==
    \/ a.d < b.d
    \/ a.d = b.d /\ a.t < b.t
    \/ a.d = b.d /\ a.t = b.t /\ SuffixRank(a.z) < SuffixRank(b.z)

\* SQLite date(measured_at): the UTC calendar date, NULL when unparseable
SqlDate(ma) ==
    IF ma.z = "?" THEN None
    ELSE IF ma.z = "+05:00" /\ ma.t = 0 THEN Some(ma.d - 1)
    ELSE Some(ma.d)

\* Python measured_at[:10]
Prefix10(ma) == ma.d

(* ------------------------------ coercion ------------------------------- *)
\* a JSON payload value: null, "", "null", unparseable text, a number, or
\* a string holding a decimal number (val in tenths)
RawNull == [kind |-> "null", val |-> 0]

RawEmpty == [kind |-> "empty", val |-> 0]

RawNullStr == [kind |-> "nullstr", val |-> 0]

RawText == [kind |-> "text", val |-> 0]

RawNum(v) == [kind |-> "num", val |-> v]

RawNumStr(v) == [kind |-> "numstr", val |-> v]

\* the inner n(key) of create_measurement: float(v), which may raise
n(v) ==
    IF v.kind \in {"null", "empty", "nullstr"} THEN [raised |-> FALSE, val |-> None]
    ELSE IF v.kind = "text" THEN [raised |-> TRUE, val |-> None]
    ELSE [raised |-> FALSE, val |-> Some(v.val)]

\* the resting_hr coercion: int(v) inside try/except
coerce_resting_hr(v) ==
    IF v.kind \in {"null", "empty"} THEN None
    ELSE IF v.kind \in {"nullstr", "text"} THEN None
    ELSE IF v.kind = "num"
         THEN Some((IF v.val < 0 THEN -((-v.val) \div 10) ELSE v.val \div 10) * 10)
    ELSE IF v.val % 10 = 0 THEN Some(v.val) ELSE None

(* ------------------------------ the store ------------------------------ *)
Row(id, ma, data, floats) ==
    [id |-> id, measured_at |-> ma,
     resting_hr |-> coerce_resting_hr(data["resting_hr"]),
     hrv |-> floats["hrv"].val,
     respiratory_rate |-> floats["respiratory_rate"].val,
     body_temp |-> floats["body_temp"].val,
     spo2 |-> floats["spo2"].val]

\* the last response sent: its status and body, with the call that produced
\* it (the request's arguments and, for insights, the local variable cutoff
\* of compute_summary), which is no part of the response
NoResp == [op |-> "none", status |-> 0, body |-> <<>>, call |-> <<>>]

\* POST /api/measurements. measured_at is None when the payload omits it.
create_measurement(measured_at, data) ==
    /\ pc = "idle"
    /\ Len(store) < MaxRecs
    /\ \E t \in Times :
         LET ma == IF measured_at = None THEN [d |-> today, t |-> t, z |-> ""]
                   ELSE measured_at[1]
             floats == [k \in {"hrv", "respiratory_rate", "body_temp", "spo2"}
                           |-> n(data[k])]
         IN  IF \E k \in DOMAIN floats : floats[k].raised
             THEN /\ resp' = [op |-> "create", status |-> 500, body |-> <<>>,
                                call |-> data]
                  /\ UNCHANGED store
             ELSE LET row == Row(Len(store) + 1, ma, data, floats)
                  IN  /\ store' = Append(store, row)
                      /\ resp' = [op |-> "create", status |-> 201, body |-> row,
                                call |-> data]
    /\ UNCHANGED <<today, USE_OPENAI, pc, pending, collab>>

\* the rows a SELECT ... ORDER BY measured_at ASC may return for the row
\* positions idx: every arrangement ascending in measured_at (SQL leaves the
\* order of rows with equal measured_at open)
OrderBy(idx) ==
    {s \in [1..Cardinality(idx) -> idx] :
        /\ \A i, j \in DOMAIN s : i # j => s[i] # s[j]
        /\ \A i, j \in DOMAIN s :
              i < j => ~TextLess(store[s[j]].measured_at, store[s[i]].measured_at)}

Rows(s) == [i \in DOMAIN s |-> store[s[i]]]

(* --------------------------- list_measurements ------------------------- *)
\* a since/until query argument: absent, "" (falsy like absent), a
\* well-formed date "YYYY-MM-DD" (day number d), or text that is no date
\* ("yesterday": it sorts after every date string)
ArgAbsent == [kind |-> "absent", d |-> 0]

ArgEmpty == [kind |-> "empty", d |-> 0]

ArgDate(d) == [kind |-> "date", d |-> d]

ArgBad == [kind |-> "bad", d |-> 0]

\* Python truthiness of the argument
Given(a) == a.kind \in {"date", "bad"}

\* SQL text comparisons date(measured_at) >= a and date(measured_at) <= a
SqlGE(ma, a) ==
    /\ SqlDate(ma) # None
    /\ a.kind = "date"
    /\ SqlDate(ma)[1] >= a.d

SqlLE(ma, a) ==
    /\ SqlDate(ma) # None
    /\ a.kind = "bad" \/ SqlDate(ma)[1] <= a.d

\* the WHERE clause list_measurements picks
ListWhere(ma, since, until) ==
    IF Given(since) /\ Given(until) THEN SqlGE(ma, since) /\ SqlLE(ma, until)
    ELSE IF Given(since) THEN SqlGE(ma, since)
    ELSE TRUE

\* GET /api/measurements
list_measurements(since, until) ==
    /\ pc = "idle"
    /\ \E s \in OrderBy({i \in DOMAIN store :
                            ListWhere(store[i].measured_at, since, until)}) :
          resp' = [op |-> "list", status |-> 200,
                   body |-> Rows(s),
                   call |-> [since |-> since, until |-> until]]
    /\ UNCHANGED <<store, today, USE_OPENAI, pc, pending, collab>>

(* ----------------------------- statistics ------------------------------ *)
RECURSIVE Sum(_)
Sum(xs) == IF xs = <<>> THEN 0 ELSE Head(xs) + Sum(Tail(xs))

\* [v for v in values if v is not None], unwrapped
Present(values) ==
    LET keep == SelectSeq(values, LAMBDA v : v # None)
    IN  [i \in DOMAIN keep |-> keep[i][1]]

mean(xs) ==
    LET ys == Present(xs)
    IN  IF ys = <<>> THEN None ELSE Some(Frac(Sum(ys), Len(ys)))

\* pct_change with the difference taken the wrong way round
pct_change_swapped(old, new) ==
    IF old = None \/ old[1] = 0 THEN None
    ELSE IF new = None THEN None
    ELSE Some(Frac((old[1] - new[1]) * 100, Abs(old[1])))

\* new = None makes the subtraction raise TypeError, which the except turns
\* into None
pct_change(old, new) ==
    IF old = None \/ old[1] = 0 THEN None
    ELSE IF new = None THEN None
    ELSE Some(Frac((new[1] - old[1]) * 100, Abs(old[1])))

\* simple_trend without its "fewer than two values" return
simple_trend_unguarded(values) ==
    LET cnt == Len(values)
        ys == [i \in DOMAIN values |->
                  IF values[i] # None THEN values[i][1] ELSE 0]
        Sx == Sum([i \in 1..cnt |-> i - 1])
        Sy == Sum(ys)
        A == Sum([i \in 1..cnt |-> (cnt * (i - 1) - Sx) * (cnt * ys[i] - Sy)])
        B == Sum([i \in 1..cnt |-> (cnt * (i - 1) - Sx) * (cnt * (i - 1) - Sx)])
    IN  IF B = 0 THEN Some(Frac(0, 1)) ELSE Some(Frac(A, B))

\* num and den of the code are A/n^2 and B/n^2 below (x_mean = Sx/n,
\* y_mean = Sy/n), so den = 0 iff B = 0 and num/den = A/B
simple_trend(values) ==
    IF Len(Present(values)) < 2 THEN None
    ELSE LET cnt == Len(values)
             ys == [i \in DOMAIN values |->
                       IF values[i] # None THEN values[i][1] ELSE 0]
             Sx == Sum([i \in 1..cnt |-> i - 1])
             Sy == Sum(ys)
             A == Sum([i \in 1..cnt |-> (cnt * (i - 1) - Sx) * (cnt * ys[i] - Sy)])
             B == Sum([i \in 1..cnt |-> (cnt * (i - 1) - Sx) * (cnt * (i - 1) - Sx)])
         IN  IF B = 0 THEN Some(Frac(0, 1)) ELSE Some(Frac(A, B))

\* next((v for v in vals if v is not None), None), forwards and backwards
FirstPresent(vals) ==
    LET ys == SelectSeq(vals, LAMBDA v : v # None)
    IN  IF ys = <<>> THEN None ELSE ys[1]

LastPresent(vals) ==
    LET ys == SelectSeq(vals, LAMBDA v : v # None)
    IN  IF ys = <<>> THEN None ELSE ys[Len(ys)]

Stats(vals) ==
    LET last == LastPresent(vals)
        first == FirstPresent(vals)
    IN  [first |-> first, last |-> last, avg |-> mean(vals),
         change_pct |-> IF first # None /\ last # None
                        THEN pct_change(first, last) ELSE None,
         slope |-> simple_trend(vals)]

(* ---------------------------- compute_summary -------------------------- *)
\* the date the cutoff is computed from the clock reading now
Cutoff(days, now) == now - (days - 1)

\* the query of compute_summary: every order it may return the rows in
Fetch(cutoff) ==
    OrderBy({i \in DOMAIN store : SqlGE(store[i].measured_at, ArgDate(cutoff))})

\* days_list: the loop reads the clock once per entry; the first mid reads
\* see the date now, the later ones the next date (UTC midnight passed)
DaysList(days, mid, now) ==
    [i \in 1..days |-> (IF i <= mid THEN now ELSE now + 1) - (days - i)]

\* by_day that keeps the first item of a day instead of overwriting
ByDayKeepFirst(items, d) ==
    LET hits == {i \in DOMAIN items : Prefix10(items[i].measured_at) = d}
    IN  IF hits = {} THEN None
        ELSE Some(items[CHOOSE i \in hits : \A j \in hits : i <= j])

\* by_day.get(d) after the loop over items: the last item keyed d
ByDay(items, d) ==
    LET hits == {i \in DOMAIN items : Prefix10(items[i].measured_at) = d}
    IN  IF hits = {} THEN None
        ELSE Some(items[CHOOSE i \in hits : \A j \in hits : j <= i])

Series(items, dl) ==
    [k \in MetricSet |->
        [i \in DOMAIN dl |->
            LET it == ByDay(items, dl[i])
            IN  IF it # None THEN it[1][k] ELSE None]]

HighTemp == 380

LowSpo2 == 940

\* the temperature check with > in place of >=
AnomaliesAtStrict(d, t, s) ==
    (IF t # None /\ t[1] > HighTemp
     THEN <<[date |-> d, kind |-> "high temp", value |-> t[1]]>> ELSE <<>>)
    \o
    (IF s # None /\ s[1] < LowSpo2
     THEN <<[date |-> d, kind |-> "low SpO2", value |-> s[1]]>> ELSE <<>>)

AnomaliesAt(d, t, s) ==
    (IF t # None /\ t[1] >= HighTemp
     THEN <<[date |-> d, kind |-> "high temp", value |-> t[1]]>> ELSE <<>>)
    \o
    (IF s # None /\ s[1] < LowSpo2
     THEN <<[date |-> d, kind |-> "low SpO2", value |-> s[1]]>> ELSE <<>>)

RECURSIVE AnomaliesUpTo(_, _, _)
AnomaliesUpTo(dl, series, k) ==
    IF k = 0 THEN <<>>
    ELSE AnomaliesUpTo(dl, series, k - 1)
         \o AnomaliesAt(dl[k], series["body_temp"][k], series["spo2"][k])

compute_summary(days, items, dl) ==
    LET series == Series(items, dl)
    IN  [days |-> days,
         dates |-> dl,
         series |-> series,
         stats |-> [k \in MetricSet |-> Stats(series[k])],
         anomalies |-> AnomaliesUpTo(dl, series, Len(dl))]

(* ------------------------------ get_insights --------------------------- *)
\* one sentence of the deterministic insight; pct and avg are the numbers
\* the f-string prints, round(.., 1), in tenths
Sentence(subject, st) ==
    [kind |-> subject,
     direction |-> IF st.change_pct[1].n > 0 THEN "increased" ELSE "decreased",
     pct |-> Round1(Frac(st.change_pct[1].n * 10, st.change_pct[1].d)),
     avg |-> Round1(st.avg[1])]

\* abs(change_pct) >= k
AbsAtLeast(f, k) == Abs(f.n) >= k * f.d

RhrThreshold == 3

HrvThreshold == 6

\* the resting-HR rule with > in place of >=
RhrPartStrict(st) ==
    IF st.first # None /\ st.last # None
       /\ st.change_pct # None /\ Abs(st.change_pct[1].n) > RhrThreshold * st.change_pct[1].d
    THEN <<Sentence("Resting HR", st)>> ELSE <<>>

RhrPart(st) ==
    IF st.first # None /\ st.last # None
       /\ st.change_pct # None /\ AbsAtLeast(st.change_pct[1], RhrThreshold)
    THEN <<Sentence("Resting HR", st)>> ELSE <<>>

HrvPart(st) ==
    IF st.first # None /\ st.last # None
       /\ st.change_pct # None /\ AbsAtLeast(st.change_pct[1], HrvThreshold)
    THEN <<Sentence("HRV", st)>> ELSE <<>>

AnomaliesPart(summary) ==
    IF summary.anomalies # <<>>
    THEN <<[kind |-> "Anomalies", list |-> summary.anomalies]>> ELSE <<>>

NoNotableChanges == <<[kind |-> "No notable changes"]>>

\* deterministic_insight, as the sequence of its sentences
Deterministic(summary) ==
    LET parts == RhrPart(summary.stats["resting_hr"])
                 \o HrvPart(summary.stats["hrv"])
                 \o AnomaliesPart(summary)
    IN  IF parts # <<>> THEN parts ELSE NoNotableChanges

Out(deterministic, ai, summary, cutoff) ==
    [op |-> "insights", status |-> 200,
     body |-> [deterministic |-> deterministic, ai |-> ai, summary |-> summary],
     call |-> [days |-> summary.days, cutoff |-> cutoff]]

MaxToday == Today0 + MaxTicks

\* GET /api/insights?days=N up to the collaborator call. mid = days: every
\* clock read of days_list falls on the date of the cutoff read; mid < days:
\* UTC midnight passes after mid of them.
get_insights(days, mid) ==
    /\ pc = "idle"
    /\ mid < days => today < MaxToday
    /\ \E s \in Fetch(Cutoff(days, today)) :
       \E summary \in {compute_summary(days, Rows(s), DaysList(days, mid, today))} :
         LET det == Deterministic(summary)
         IN  IF USE_OPENAI
             THEN /\ pc' = "calling"
                  /\ collab' = "called"
                  /\ pending' = <<[deterministic |-> det, summary |-> summary,
                                 cutoff |-> Cutoff(days, today)]>>
                  /\ resp' = NoResp
             ELSE /\ resp' = Out(det, None, summary, Cutoff(days, today))
                  /\ UNCHANGED <<pc, collab, pending>>
    /\ today' = IF mid < days THEN today + 1 ELSE today
    /\ UNCHANGED <<store, USE_OPENAI>>

\* openai.Completion.create returns: ai_insight is the stripped text
openai_returns(text) ==
    /\ pc = "calling" /\ collab = "called"
    /\ resp' = Out(pending[1].deterministic, Some(text), pending[1].summary,
                   pending[1].cutoff)
    /\ pc' = "idle" /\ collab' = "idle" /\ pending' = <<>>
    /\ UNCHANGED <<store, today, USE_OPENAI>>

\* openai.Completion.create raises: the except sets ai_insight = None
openai_raises ==
    /\ pc = "calling" /\ collab = "called"
    /\ resp' = Out(pending[1].deterministic, None, pending[1].summary,
                   pending[1].cutoff)
    /\ pc' = "idle" /\ collab' = "idle" /\ pending' = <<>>
    /\ UNCHANGED <<store, today, USE_OPENAI>>

\* the collaborator accepts the call and never answers; the call is made
\* without a timeout argument and nothing else ends it
openai_silent ==
    /\ pc = "calling" /\ collab = "called"
    /\ collab' = "silent"
    /\ UNCHANGED <<store, today, resp, USE_OPENAI, pc, pending>>

\* UTC midnight passes between requests
Tick ==
    /\ today < MaxToday
    /\ today' = today + 1
    /\ UNCHANGED <<store, resp, USE_OPENAI, pc, pending, collab>>

(* --------------------------- inputs and specs -------------------------- *)
Fields(rhr, hrv, rr, temp, spo2) ==
    [resting_hr |-> rhr, hrv |-> hrv, respiratory_rate |-> rr,
     body_temp |-> temp, spo2 |-> spo2]

PayloadA == Fields(RawNum(1000), RawNum(500), RawNum(160), RawNum(375), RawNum(970))

PayloadB == Fields(RawNumStr(1100), RawNum(530), RawNum(0), RawNum(380), RawNum(930))

PayloadC == Fields(RawNum(1039), RawNumStr(600), RawEmpty, RawNumStr(382), RawNum(940))

PayloadD == Fields(RawNum(0), RawNum(0), RawNull, RawNullStr, RawNum(939))

PayloadE == Fields(RawNull, RawEmpty, RawNull, RawEmpty, RawNull)

\* the days measurements are dated: yesterday and today at start
Days == (Today0 - 1)..Today0

\* measured_at values of the payloads: omitted, or a string
MeasuredAts ==
    {None} \cup {Some([d |-> d, t |-> t, z |-> ""]) : d \in Days, t \in Times}
           \cup {Some([d |-> d, t |-> 0, z |-> "+05:00"]) : d \in Days}
           \cup {Some([d |-> Today0, t |-> 1, z |-> "?"])}

InitCommon ==
    /\ store = <<>>
    /\ today = Today0
    /\ resp = NoResp
    /\ pc = "idle"
    /\ pending = <<>>
    /\ collab = "idle"

Init == InitCommon /\ USE_OPENAI = FALSE

Next ==
    \/ Tick
    \/ \E ma \in MeasuredAts, data \in {PayloadA, PayloadB} :
          create_measurement(ma, data)
    \/ \E days \in 1..MaxN : \E mid \in 0..days : get_insights(days, mid)

Spec == Init /\ [][Next]_vars

\* the summary engine over measurements that differ in their metric values
StatsMeasuredAts == {Some([d |-> d, t |-> 1, z |-> ""]) : d \in Days}

NextStats ==
    \/ Tick
    \/ \E ma \in StatsMeasuredAts,
          data \in {PayloadA, PayloadB, PayloadC, PayloadD, PayloadE} :
          create_measurement(ma, data)
    \/ \E days \in 1..MaxN : \E mid \in 0..days : get_insights(days, mid)

SpecStats == Init /\ [][NextStats]_vars

\* the store: payloads with one numeric field malformed, measured_at values
\* of every form, since/until arguments of every form
Malformed == {RawNull, RawEmpty, RawNullStr, RawText}

StorePayloads ==
    {PayloadA} \cup
    {[PayloadA EXCEPT ![f] = r] : f \in MetricSet, r \in Malformed}

StoreMeasuredAts ==
    {None} \cup {Some([d |-> d, t |-> t, z |-> ""]) : d \in Days, t \in Times}
           \cup {Some([d |-> Today0, t |-> 0, z |-> "+05:00"]),
                 Some([d |-> Today0, t |-> 1, z |-> "?"])}

ListArgs ==
    {ArgAbsent, ArgEmpty, ArgBad} \cup {ArgDate(d) : d \in (Today0 - 1)..(Today0 + 1)}

NextStore ==
    \/ \E ma \in StoreMeasuredAts, data \in StorePayloads :
          create_measurement(ma, data)
    \/ \E since \in ListArgs, until \in ListArgs : list_measurements(since, until)

SpecStore == Init /\ [][NextStore]_vars

\* get_insights with and without the collaborator configured
Texts == {"rewritten"}

InitCollab == InitCommon /\ USE_OPENAI \in BOOLEAN

NextCollab ==
    \/ Tick
    \/ \E ma \in StatsMeasuredAts, data \in {PayloadA, PayloadB} :
          create_measurement(ma, data)
    \/ \E days \in 1..MaxN : \E mid \in 0..days : get_insights(days, mid)
    \/ \E text \in Texts : openai_returns(text)
    \/ openai_raises
    \/ openai_silent

SpecCollab == InitCollab /\ [][NextCollab]_vars

(* ================================ claims =============================== *)
IsInsights == resp.op = "insights"

Summary == resp.body.summary

\* the rows the compute_summary query of the last request returned that
\* by_day keys under date d
Keyed(d) ==
    {k \in DOMAIN store :
        /\ Prefix10(store[k].measured_at) = d
        /\ SqlGE(store[k].measured_at, ArgDate(resp.call.cutoff))}

\* slot i of the series carries the five metric values of row k
SlotIs(i, k) == \A m \in MetricSet : Summary.series[m][i] = store[k][m]

\* every measured_at has the plain form and no two are equal
PlainStore ==
    /\ \A k \in DOMAIN store : store[k].measured_at.z = ""
    /\ \A k, j \in DOMAIN store :
          k # j => store[k].measured_at # store[j].measured_at

\* C1 as stated: when two or more stored measurements are on the same
\* calendar day of the window, that day's slot carries the values of the
\* later-inserted one (the greatest id), whatever their times of day. Stated
\* for stores whose measured_at values all have the plain form and differ.
C1_LaterInsertedWins ==
    IsInsights /\ PlainStore =>
        \A i \in DOMAIN Summary.dates :
            LET on == Keyed(Summary.dates[i])
            IN  Cardinality(on) >= 2 =>
                    SlotIs(i, CHOOSE k \in on : \A j \in on : store[j].id <= store[k].id)

\* C1 amended: when the query returned one or more measurements whose
\* measured_at starts with a window date, that day's slot carries the five
\* values of one of them that no other of them follows in measured_at text
\* order (the latest time of day); insertion order decides nothing.
C1_LatestMeasuredAtWins ==
    IsInsights =>
        \A i \in DOMAIN Summary.dates :
            LET on == Keyed(Summary.dates[i])
            IN  on # {} =>
                    \E k \in on :
                        /\ \A j \in on :
                              ~TextLess(store[k].measured_at, store[j].measured_at)
                        /\ SlotIs(i, k)

\* two measurements of one window day, the later-inserted one with the
\* earlier time of day and other values, and the slot carries the earlier-
\* inserted one's values
C1_Witness ==
    /\ IsInsights
    /\ \E i \in DOMAIN Summary.dates : \E k, j \in Keyed(Summary.dates[i]) :
          /\ store[k].id < store[j].id
          /\ TextLess(store[j].measured_at, store[k].measured_at)
          /\ store[k].hrv # store[j].hrv
          /\ SlotIs(i, k)

\* the dates are the consecutive calendar dates ending at some date
ConsecutiveDates(dates) ==
    \A i \in DOMAIN dates : i < Len(dates) => dates[i + 1] = dates[i] + 1

\* C6: compute_summary(N) returns exactly N dates, the consecutive calendar
\* dates ending today in ascending order; each metric series has N entries,
\* entry i being the value of a measurement keyed to that date or absent;
\* with no data in range every series value and every stats field is absent
\* and anomalies is empty.
C6_FixedLengthWindow ==
    IsInsights =>
        /\ Len(Summary.dates) = Summary.days
        /\ ConsecutiveDates(Summary.dates)
        /\ \A m \in MetricSet :
              /\ Len(Summary.series[m]) = Summary.days
              /\ \A i \in DOMAIN Summary.dates :
                    \/ Summary.series[m][i] = None
                    \/ \E k \in Keyed(Summary.dates[i]) :
                          Summary.series[m][i] = store[k][m]
        /\ (\A i \in DOMAIN Summary.dates : Keyed(Summary.dates[i]) = {}) =>
              /\ \A m \in MetricSet :
                    /\ \A i \in DOMAIN Summary.dates : Summary.series[m][i] = None
                    /\ Summary.stats[m] = [first |-> None, last |-> None,
                                           avg |-> None, change_pct |-> None,
                                           slope |-> None]
              /\ Summary.anomalies = <<>>

\* C10 as stated: for N = 1 the slope of every metric is 0.
C10_SlopeZeroForOneDay ==
    IsInsights /\ Summary.days = 1 =>
        \A m \in MetricSet : Summary.stats[m].slope = Some(Frac(0, 1))

\* C10 amended: for N = 1 the slope of every metric is absent (a one-day
\* series holds fewer than two values, so the zero-variance return is never
\* reached).
C10_SlopeAbsentForOneDay ==
    IsInsights /\ Summary.days = 1 =>
        \A m \in MetricSet : Summary.stats[m].slope = None

\* a one-day summary whose slot holds a value
C10_Witness ==
    /\ IsInsights
    /\ Summary.days = 1
    /\ Summary.stats["hrv"].first # None
    /\ Summary.stats["hrv"].slope = None

\* positions of the anomalies of one kind dated d
AnomalyAt(d, kind) ==
    {j \in DOMAIN Summary.anomalies :
        Summary.anomalies[j].date = d /\ Summary.anomalies[j].kind = kind}

\* C7: anomalies holds exactly one "high temp" entry for each window day
\* whose slot has body_temp >= 38.0 and exactly one "low SpO2" entry for each
\* window day whose slot has spo2 < 94, and nothing else; each entry carries
\* its date, the entries are in chronological day order, and on one day the
\* temperature entry comes immediately before the oxygen entry.
C7_AnomaliesExact ==
    IsInsights =>
        LET an == Summary.anomalies
            temp == Summary.series["body_temp"]
            spo2 == Summary.series["spo2"]
        IN  /\ \A i \in DOMAIN Summary.dates :
                  /\ Cardinality(AnomalyAt(Summary.dates[i], "high temp"))
                        = IF temp[i] # None /\ temp[i][1] >= 380 THEN 1 ELSE 0
                  /\ Cardinality(AnomalyAt(Summary.dates[i], "low SpO2"))
                        = IF spo2[i] # None /\ spo2[i][1] < 940 THEN 1 ELSE 0
            /\ \A j \in DOMAIN an :
                  /\ an[j].kind \in {"high temp", "low SpO2"}
                  /\ \E i \in DOMAIN Summary.dates :
                        /\ an[j].date = Summary.dates[i]
                        /\ an[j].value = (IF an[j].kind = "high temp"
                                          THEN temp[i][1] ELSE spo2[i][1])
            /\ \A j \in DOMAIN an : j < Len(an) =>
                  \/ an[j].date < an[j + 1].date
                  \/ /\ an[j].date = an[j + 1].date
                     /\ an[j].kind = "high temp"
                     /\ an[j + 1].kind = "low SpO2"

\* a day with both flags followed by a day with a flag of its own
C7_Witness ==
    /\ IsInsights
    /\ Len(Summary.anomalies) >= 3
    /\ Summary.anomalies[1].kind = "high temp"
    /\ Summary.anomalies[2].kind = "low SpO2"
    /\ Summary.anomalies[1].date = Summary.anomalies[2].date
    /\ Summary.anomalies[2].date < Summary.anomalies[3].date

\* C8: for each metric, change_pct is (last - first) / |first| * 100 when
\* first and last are both present and first is not 0, and absent otherwise;
\* change_pct(100, 110) = 10.
C8_ChangePct ==
    IsInsights =>
        \A m \in MetricSet :
            LET st == Summary.stats[m]
            IN  /\ IF st.first # None /\ st.last # None /\ st.first[1] # 0
                   THEN /\ st.change_pct # None
                        /\ st.change_pct[1].d > 0
                        /\ st.change_pct[1].n * Abs(st.first[1])
                              = (st.last[1] - st.first[1]) * 100 * st.change_pct[1].d
                   ELSE st.change_pct = None
                /\ st.first = Some(1000) /\ st.last = Some(1100)
                      => st.change_pct = Some([n |-> 10, d |-> 1])

\* one summary with a metric whose first value is 0 (change_pct absent) and
\* a metric whose values changed
C8_Witness ==
    /\ IsInsights
    /\ Summary.stats["resting_hr"].first = Some(0)
    /\ Summary.stats["resting_hr"].last = Some(1000)
    /\ Summary.stats["resting_hr"].change_pct = None
    /\ Summary.stats["spo2"].change_pct # None
    /\ Summary.stats["spo2"].change_pct[1].n > 0

SentenceRank(kind) ==
    IF kind = "Resting HR" THEN 1 ELSE IF kind = "HRV" THEN 2
    ELSE IF kind = "Anomalies" THEN 3 ELSE 4

\* C9: the narrative has a resting-HR sentence iff resting_hr change_pct is
\* present with absolute value >= 3, an HRV sentence iff hrv change_pct is
\* present with absolute value >= 6; a sentence says "increased" when
\* change_pct > 0 and "decreased" otherwise; the sentences come in the order
\* resting HR, HRV, anomalies; when no rule fires the narrative is the fixed
\* "no notable changes" sentence.
C9_Narrative ==
    IsInsights =>
        LET det == resp.body.deterministic
            r == Summary.stats["resting_hr"].change_pct
            h == Summary.stats["hrv"].change_pct
            fires(cp, k) == cp # None /\ Abs(cp[1].n) >= k * cp[1].d
            word(cp) == IF cp[1].n > 0 THEN "increased" ELSE "decreased"
        IN  /\ (\E j \in DOMAIN det : det[j].kind = "Resting HR") <=> fires(r, 3)
            /\ (\E j \in DOMAIN det : det[j].kind = "HRV") <=> fires(h, 6)
            /\ (\E j \in DOMAIN det : det[j].kind = "Anomalies")
                  <=> Summary.anomalies # <<>>
            /\ \A j \in DOMAIN det :
                  /\ det[j].kind = "Resting HR" => det[j].direction = word(r)
                  /\ det[j].kind = "HRV" => det[j].direction = word(h)
                  /\ j < Len(det) =>
                        SentenceRank(det[j].kind) < SentenceRank(det[j + 1].kind)
            /\ (~fires(r, 3) /\ ~fires(h, 6) /\ Summary.anomalies = <<>>)
                  <=> det = <<[kind |-> "No notable changes"]>>

\* all three rules fire: resting HR up 10%, HRV up exactly 6%, anomalies
C9_Witness ==
    /\ IsInsights
    /\ Len(resp.body.deterministic) = 3
    /\ resp.body.deterministic[1].direction = "increased"
    /\ resp.body.deterministic[1].pct = 100
    /\ resp.body.deterministic[2].pct = 60

\* C2: create_measurement never fails because of a malformed numeric field:
\* an empty, null or unparseable value of resting_hr, hrv, respiratory_rate,
\* body_temp or spo2 gives a persisted and returned record with that field
\* absent, and no error.
C2_MalformedNumberIsAbsent ==
    resp.op = "create" =>
        /\ resp.status = 201
        /\ store # <<>> /\ resp.body = store[Len(store)]
        /\ \A f \in MetricSet : resp.call[f] \in Malformed => resp.body[f] = None

\* the bounds since and until state on a calendar date; a measurement whose
\* measured_at has no date meets them only when none is given
InBounds(ma, since, until) ==
    /\ Given(since) => SqlDate(ma) # None /\ since.d <= SqlDate(ma)[1]
    /\ Given(until) => SqlDate(ma) # None /\ SqlDate(ma)[1] <= until.d

\* C3: list(since, until) returns exactly the stored records whose
\* measured_at date d has since <= d (since given) and d <= until (until
\* given), for every combination of given and omitted bounds, in ascending
\* measured_at order. Stated for bounds that are omitted or well-formed.
C3_ListReturnsRange ==
    resp.op = "list" /\ {resp.call.since.kind, resp.call.until.kind} \subseteq {"absent", "date"} =>
        /\ \A k \in DOMAIN store :
              InBounds(store[k].measured_at, resp.call.since, resp.call.until)
                 <=> \E i \in DOMAIN resp.body : resp.body[i] = store[k]
        /\ \A i \in DOMAIN resp.body : \E k \in DOMAIN store : resp.body[i] = store[k]
        /\ \A i, j \in DOMAIN resp.body :
              /\ i < j => ~TextLess(resp.body[j].measured_at, resp.body[i].measured_at)
              /\ i # j => resp.body[i] # resp.body[j]

\* C5: a list request whose since or until is no well-formed date is
\* rejected with a client error instead of returning rows.
C5_MalformedFilterRejected ==
    resp.op = "list" /\ (resp.call.since.kind = "bad" \/ resp.call.until.kind = "bad") =>
        resp.status \in 400..499

\* C4: every get-insights request completes whatever the collaborator does:
\* a request waiting for the collaborator can always go on (the collaborator
\* being silent does not hold it), and a response sent after a collaborator
\* failure has ai absent and the deterministic narrative of its summary.
C4_CollaboratorNeverBlocks ==
    /\ pc = "calling" => ENABLED (openai_raises \/ \E text \in Texts : openai_returns(text))
    /\ IsInsights => resp.body.deterministic = Deterministic(Summary)
    /\ IsInsights /\ ~USE_OPENAI => resp.body.ai = None

====
